---- MODULE Spec2Model ----
(***************************************************************************)
(* Model of src/stl_viewer.py: MultiSTLViewer (load_folder, center_scene,  *)
(* paintGL, mousePressEvent, mouseMoveEvent, wheelEvent) and the part of   *)
(* main() that constructs and shows it.                                    *)
(*                                                                         *)
(* Number representation.  The program computes in IEEE doubles; the model *)
(* uses fixed point:                                                       *)
(*   - lengths (size, distance, center) in 1/1000 world unit,              *)
(*   - angles (rot_x, rot_y) in 1/10 degree,                               *)
(*   - the wheel factor in 1/1000,                                         *)
(*   - mesh coordinates are whole world units, or a non-finite value.      *)
(* Products are rounded down to the resolution.                            *)
(***************************************************************************)
EXTENDS Integers, Sequences, FiniteSets, TLC

VARIABLES
    pc,          \* position of main(): "load_folder", "constructed", "running", "crashed"
    listing,     \* os.listdir(folder): the directory entries, in enumeration order
    idx,         \* load_folder's loop position in listing
    meshes,      \* self.meshes
    colors,      \* self.colors
    log,         \* lines printed to stdout
    center,      \* self.center (<<>> while the attribute is unset)
    size,        \* self.size   (-1 while the attribute is unset)
    min_xyz,     \* self.min_xyz (<<>> while unset)
    max_xyz,     \* self.max_xyz (<<>> while unset)
    distance,    \* self.distance
    rot_x,       \* self.rot_x
    rot_y,       \* self.rot_y
    last_pos,    \* self.last_pos
    redraw,      \* a repaint is pending (QWidget.update() was called, or the window was shown)
    frames,      \* number of frames paintGL has rendered
    frame,       \* what the last paintGL call submitted
    event,       \* the event object of the last input handler call
    nevents,     \* number of input events handled
    pointer,     \* history: position reported by the last pointer event (<<>> if none)
    drag,        \* history: the current run of consecutive left-button moves
    center_calls \* history: number of calls of center_scene

vars == <<pc, listing, idx, meshes, colors, log, center, size, min_xyz, max_xyz,
          distance, rot_x, rot_y, last_pos, redraw, frames, frame, event,
          nevents, pointer, drag, center_calls>>

----------------------------------------------------------------------------
(* Bounds of the model *)

MaxFiles == 2
MaxEvents == 3

----------------------------------------------------------------------------
(* Program constants, in the model's units *)

InitRotX == 250
InitRotY == -400
InitDistance == 500000
FallbackSize == 100000
FallbackDistance == 500000
SizeEpsilon == 1
MinInitialDistance == 200000
RotScale == 4
FactorOne == 1000
FactorMin == 100
FactorMax == 5000
DistanceMin == 10000
DistanceMax == 100000000

----------------------------------------------------------------------------
(* Values *)

\* A coordinate of a vertex: a finite number of world units, or NaN / +inf / -inf.
F(n) == [k |-> "fin", v |-> n]
NaN == [k |-> "nan", v |-> 0]
PosInf == [k |-> "inf", v |-> 0]
NegInf == [k |-> "-inf", v |-> 0]

V(x, y, z) == <<F(x), F(y), F(z)>>

\* np.isfinite on one coordinate
isfinite(c) == c.k = "fin"

\* File names are sequences of characters.
UpperChars == <<"A","B","C","D","E","F","G","H","I","J","K","L","M",
                "N","O","P","Q","R","S","T","U","V","W","X","Y","Z">>
LowerChars == <<"a","b","c","d","e","f","g","h","i","j","k","l","m",
                "n","o","p","q","r","s","t","u","v","w","x","y","z">>

\* str.lower()
LowerChar(c) ==
    IF \E i \in 1..Len(UpperChars) : UpperChars[i] = c
    THEN LowerChars[CHOOSE i \in 1..Len(UpperChars) : UpperChars[i] = c]
    ELSE c

lower(s) == [i \in 1..Len(s) |-> LowerChar(s[i])]

\* str.endswith()
endswith(s, suffix) ==
    /\ Len(s) >= Len(suffix)
    /\ SubSeq(s, Len(s) - Len(suffix) + 1, Len(s)) = suffix

StlSuffix == <<".", "s", "t", "l">>

\* load_folder's filter: fname.lower().endswith(".stl")
IsCandidate(fname) == endswith(lower(fname), StlSuffix)

----------------------------------------------------------------------------
(* Inputs: directories *)

NameLower == <<"a", ".", "s", "t", "l">>
NameUpper == <<"B", ".", "S", "T", "L">>
NameMixed == <<"d", ".", "S", "t", "l">>
NameText  == <<"c", ".", "t", "x", "t">>
NameShort == <<"s", "t", "l">>

\* Every vertex has a non-finite coordinate.
MeshAllBad ==
    << << <<NaN, F(1), F(2)>>, <<F(3), PosInf, F(4)>>, <<F(5), F(6), NegInf>> >> >>
\* One bad vertex (with extreme finite coordinates) and two good ones.
MeshMixed ==
    << << <<NaN, F(900), F(-900)>>, V(0, 0, 0), V(3, 4, 0) >> >>
\* All vertices coincide.
MeshPoint ==
    << << V(7, 7, 7), V(7, 7, 7), V(7, 7, 7) >> >>
\* Two triangles spanning a box of diagonal 10000.
MeshBox ==
    << << V(6000, 0, 0), V(0, 8000, 0), V(0, 0, 0) >>,
       << V(6000, 8000, 0), V(0, 8000, 0), V(1, 1, 0) >> >>
\* A box of diagonal 45000.
MeshHuge ==
    << << V(0, 0, 0), V(45000, 0, 0), V(1, 0, 0) >> >>
\* A mesh file with zero triangles.
MeshEmpty == <<>>

MeshPool == {MeshAllBad, MeshMixed, MeshPoint, MeshBox, MeshHuge, MeshEmpty}

\* A directory entry: its name, whether mesh.Mesh.from_file succeeds on it, and
\* the triangles it yields when it does.
Entry(n, p, v) == [name |-> n, parses |-> p, vectors |-> v]
Corrupt(n) == Entry(n, FALSE, <<>>)

\* Colours np.random.uniform(0.3, 0.9, size=3) can draw (in 1/100).
Colors == { <<30, 60, 89>>, <<89, 30, 45>> }

----------------------------------------------------------------------------
(* center_scene: the bounds computation *)

RECURSIVE Concat(_)
\* m.vectors.reshape(-1, 3) on one mesh (its triangles' vertices in a row), and
\* np.vstack on the list of those arrays: both concatenate.
Concat(seqs) == IF seqs = <<>> THEN <<>> ELSE Head(seqs) \o Concat(Tail(seqs))

\* The list all_points: one (n, 3) array per mesh.  (The except branch of lines
\* 57-58 is not taken: the vectors of a loaded Mesh always reshape.)
AllPointsList(ms) == [i \in 1..Len(ms) |-> Concat(ms[i])]

RowFinite(v) == \A i \in 1..3 : isfinite(v[i])

\* Faulty variant, for comparison: a row is dropped only when all of its coordinates are non-finite
\* (.any(axis=1) for .all(axis=1)).
FiniteRowsAnyAxis(pts) == SelectSeq(pts, LAMBDA v : \E i \in 1..3 : isfinite(v[i]))

\* all_points[np.isfinite(all_points).all(axis=1)]
FiniteRows(pts) == SelectSeq(pts, RowFinite)

Min2(a, b) == IF a <= b THEN a ELSE b
Max2(a, b) == IF a >= b THEN a ELSE b

RECURSIVE AxisMin(_, _)
\* all_points.min(axis=0)[i] (pts not empty)
AxisMin(pts, i) ==
    IF Len(pts) = 1 THEN pts[1][i].v
    ELSE Min2(pts[1][i].v, AxisMin(Tail(pts), i))

RECURSIVE AxisMax(_, _)
\* all_points.max(axis=0)[i] (pts not empty)
AxisMax(pts, i) ==
    IF Len(pts) = 1 THEN pts[1][i].v
    ELSE Max2(pts[1][i].v, AxisMax(Tail(pts), i))

RECURSIVE SqrtSearch(_, _, _)
\* the largest r in lo..hi with r * r <= n
SqrtSearch(n, lo, hi) ==
    IF lo >= hi THEN lo
    ELSE LET mid == (lo + hi + 1) \div 2
         IN  IF mid * mid <= n THEN SqrtSearch(n, mid, hi)
             ELSE SqrtSearch(n, lo, mid - 1)

ISqrt(n) == SqrtSearch(n, 0, Min2(n, 46340))

\* float(np.linalg.norm(diag)) in 1/1000 unit: the square root of the sum of
\* squares, rounded down to 1/1000 unit where that fits the checker's integers
\* and to a whole unit above.
norm(diag) ==
    LET d2 == diag[1] * diag[1] + diag[2] * diag[2] + diag[3] * diag[3]
    IN  IF d2 <= 2147 THEN ISqrt(d2 * 1000000) ELSE ISqrt(d2) * 1000

\* Faulty variant, for comparison: the fallback's distance derived from its size, max(100 * 2.5, 200)
FallbackBoundsDerived ==
    [raised |-> FALSE, center |-> <<0, 0, 0>>, size |-> FallbackSize,
     distance |-> Max2((FallbackSize * 5) \div 2, MinInitialDistance),
     min_xyz |-> <<>>, max_xyz |-> <<>>, printed |-> FALSE]

\* center_scene, lines 60-65: the fallback if no geometry
FallbackBounds ==
    [raised |-> FALSE, center |-> <<0, 0, 0>>, size |-> FallbackSize,
     distance |-> FallbackDistance,
     min_xyz |-> <<>>, max_xyz |-> <<>>, printed |-> FALSE]

\* center_scene, lines 72-84, on the filtered points (not empty)
ComputedBounds(pts) ==
    LET mn == [i \in 1..3 |-> AxisMin(pts, i)]
        mx == [i \in 1..3 |-> AxisMax(pts, i)]
        diag == [i \in 1..3 |-> mx[i] - mn[i]]
        sz0 == norm(diag)
        sz == IF sz0 < SizeEpsilon THEN FallbackSize ELSE sz0
    IN  [raised |-> FALSE,
         center |-> [i \in 1..3 |-> (mn[i] + mx[i]) * 500],
         size |-> sz,
         distance |-> Max2((sz * 5) \div 2, MinInitialDistance),
         min_xyz |-> mn, max_xyz |-> mx, printed |-> TRUE]

\* What center_scene does on self.meshes = ms.  raised: all_points.min(axis=0)
\* raises ValueError on a zero-size array, before any attribute is assigned.
SceneBounds(ms) ==
    LET all_points == AllPointsList(ms)
    IN  IF all_points = <<>> THEN FallbackBounds
        ELSE LET pts == FiniteRows(Concat(all_points))
             IN  IF pts = <<>>
                 THEN [raised |-> TRUE, center |-> <<>>, size |-> -1,
                       distance |-> InitDistance,
                       min_xyz |-> <<>>, max_xyz |-> <<>>, printed |-> FALSE]
                 ELSE ComputedBounds(pts)

----------------------------------------------------------------------------
(* wheelEvent's arithmetic *)

Clamp(x, lo, hi) == Max2(lo, Min2(hi, x))

\* 1.0 - delta * 0.001, then max(0.1, min(5.0, factor)), in 1/1000
WheelFactor(delta) == Clamp(FactorOne - delta, FactorMin, FactorMax)

\* d * factor for d in 1/1000 unit and factor in 1/1000, rounded down to 1/1000
\* unit (the product is split so that it stays within the checker's integers)
Scale(d, factor) ==
    (d \div 1000) * factor + ((d % 1000) * factor) \div 1000

----------------------------------------------------------------------------
(* The state after MultiSTLViewer.__init__ has run lines 15-24 and load_folder
   has called os.listdir. *)

NoEvent == [kind |-> "none", x |-> 0, y |-> 0, left |-> FALSE, delta |-> 0]
NoFrame == [eye |-> 0, rot_x |-> 0, rot_y |-> 0, translate |-> <<>>, drawn |-> <<>>]
NoDrag == [n |-> 0, sx |-> 0, sy |-> 0, rot_x0 |-> 0, rot_y0 |-> 0]

InitOn(dirs) ==
    /\ listing \in dirs
    /\ pc = "load_folder"
    /\ idx = 1
    /\ meshes = <<>>
    /\ colors = <<>>
    /\ log = <<>>
    /\ center = <<>>
    /\ size = -1
    /\ min_xyz = <<>>
    /\ max_xyz = <<>>
    /\ rot_x = InitRotX
    /\ rot_y = InitRotY
    /\ distance = InitDistance
    /\ last_pos = <<0, 0>>
    /\ redraw = FALSE
    /\ frames = 0
    /\ frame = NoFrame
    /\ event = NoEvent
    /\ nevents = 0
    /\ pointer = <<>>
    /\ drag = NoDrag
    /\ center_calls = 0

camera == <<rot_x, rot_y, distance, last_pos>>
scene == <<center, size, min_xyz, max_xyz>>
loaded == <<listing, idx, meshes, colors, log>>
painted == <<redraw, frames, frame>>
input == <<event, nevents, pointer, drag>>

----------------------------------------------------------------------------
(* load_folder: one iteration of the loop over os.listdir(folder) *)

\* lines 34-35: not a candidate, continue
load_skip ==
    /\ pc = "load_folder"
    /\ idx <= Len(listing)
    /\ ~IsCandidate(listing[idx].name)
    /\ idx' = idx + 1
    /\ UNCHANGED <<pc, listing, meshes, colors, log, scene, camera, painted,
                   input, center_calls>>

\* lines 36-44: the candidate parses; the mesh and a colour are appended
load_ok ==
    /\ pc = "load_folder"
    /\ idx <= Len(listing)
    /\ IsCandidate(listing[idx].name)
    /\ listing[idx].parses
    /\ \E c \in Colors :
          /\ meshes' = Append(meshes, listing[idx].vectors)
          /\ colors' = Append(colors, c)
    /\ log' = Append(log, <<"Loading:", listing[idx].name>>)
    /\ idx' = idx + 1
    /\ UNCHANGED <<pc, listing, scene, camera, painted, input, center_calls>>

\* Faulty variant, for comparison: the colour is drawn before the file is parsed
load_fail_color_first ==
    /\ pc = "load_folder"
    /\ idx <= Len(listing)
    /\ IsCandidate(listing[idx].name)
    /\ ~listing[idx].parses
    /\ \E c \in Colors : colors' = Append(colors, c)
    /\ log' = log \o << <<"Loading:", listing[idx].name>>,
                        <<"Failed to load", listing[idx].name>> >>
    /\ idx' = idx + 1
    /\ UNCHANGED <<pc, listing, meshes, scene, camera, painted, input, center_calls>>

\* Faulty variant, for comparison: the first file that fails to parse ends the scan
load_fail_abort ==
    /\ pc = "load_folder"
    /\ idx <= Len(listing)
    /\ IsCandidate(listing[idx].name)
    /\ ~listing[idx].parses
    /\ log' = log \o << <<"Loading:", listing[idx].name>>,
                        <<"Failed to load", listing[idx].name>> >>
    /\ idx' = Len(listing) + 1
    /\ UNCHANGED <<pc, listing, meshes, colors, scene, camera, painted, input,
                   center_calls>>

\* lines 36-39, 45-46: mesh.Mesh.from_file raises; the exception is caught and
\* the loop goes on
load_fail ==
    /\ pc = "load_folder"
    /\ idx <= Len(listing)
    /\ IsCandidate(listing[idx].name)
    /\ ~listing[idx].parses
    /\ log' = log \o << <<"Loading:", listing[idx].name>>,
                        <<"Failed to load", listing[idx].name>> >>
    /\ idx' = idx + 1
    /\ UNCHANGED <<pc, listing, meshes, colors, scene, camera, painted, input,
                   center_calls>>

\* load_folder has returned
Loaded == idx > Len(listing)

----------------------------------------------------------------------------
(* center_scene, called by __init__ once load_folder has returned.  When it
   raises, the exception leaves __init__, MainWindow.__init__ and main. *)

\* Faulty variant, for comparison: center_scene is called without waiting for load_folder to return
center_scene_before_loaded ==
    /\ pc = "load_folder"
    /\ LET b == SceneBounds(meshes)
       IN  /\ pc' = IF b.raised THEN "crashed" ELSE "constructed"
           /\ center' = b.center
           /\ size' = b.size
           /\ distance' = b.distance
           /\ min_xyz' = b.min_xyz
           /\ max_xyz' = b.max_xyz
           /\ log' = IF b.printed
                     THEN log \o << <<"Scene center:", b.center>>,
                                    <<"Scene size:", b.size, "distance:", b.distance>> >>
                     ELSE log
    /\ center_calls' = center_calls + 1
    /\ UNCHANGED <<listing, idx, meshes, colors, rot_x, rot_y, last_pos, painted, input>>

center_scene ==
    /\ pc = "load_folder"
    /\ Loaded
    /\ LET b == SceneBounds(meshes)
       IN  /\ pc' = IF b.raised THEN "crashed" ELSE "constructed"
           /\ center' = b.center
           /\ size' = b.size
           /\ distance' = b.distance
           /\ min_xyz' = b.min_xyz
           /\ max_xyz' = b.max_xyz
           /\ log' = IF b.printed
                     THEN log \o << <<"Scene center:", b.center>>,
                                    <<"Scene size:", b.size, "distance:", b.distance>> >>
                     ELSE log
    /\ center_calls' = center_calls + 1
    /\ UNCHANGED <<listing, idx, meshes, colors, rot_x, rot_y, last_pos, painted, input>>

\* main, lines 221-224: the window is shown and the event loop entered; showing
\* the window schedules its first paint
show ==
    /\ pc = "constructed"
    /\ pc' = "running"
    /\ redraw' = TRUE
    /\ UNCHANGED <<loaded, scene, camera, frames, frame, input, center_calls>>

----------------------------------------------------------------------------
(* The event loop: paintGL and the input handlers run only once main has
   constructed and shown the window. *)

\* zip(self.meshes, self.colors)
Zip(ms, cs) == [i \in 1..Min2(Len(ms), Len(cs)) |-> <<ms[i], cs[i]>>]

\* paintGL, lines 104-123: the frame is what it hands to OpenGL
paintGL ==
    /\ pc = "running"
    /\ redraw
    /\ frame' = [eye |-> distance, rot_x |-> rot_x, rot_y |-> rot_y,
                 translate |-> [i \in 1..3 |-> -center[i]],
                 drawn |-> Zip(meshes, colors)]
    /\ frames' = frames + 1
    /\ redraw' = FALSE
    /\ UNCHANGED <<pc, loaded, scene, camera, input, center_calls>>

\* Pointer positions (pixels) and wheel deltas (angleDelta().y()) of the events
Positions == { <<0, 0>>, <<10, -5>>, <<3, 7>> }
Deltas == { 120, -120, 1200, -4500 }

\* mousePressEvent, lines 183-184
mousePressEvent(p) ==
    /\ pc = "running"
    /\ nevents < MaxEvents
    /\ last_pos' = p
    /\ event' = [kind |-> "press", x |-> p[1], y |-> p[2], left |-> FALSE, delta |-> 0]
    /\ nevents' = nevents + 1
    /\ pointer' = p
    /\ drag' = NoDrag
    /\ UNCHANGED <<pc, loaded, scene, rot_x, rot_y, distance, painted, center_calls>>

\* Faulty variant, for comparison: the position is recorded only while the left button is held
mouseMoveEventTrackLeftOnly(p, left) ==
    /\ pc = "running"
    /\ nevents < MaxEvents
    /\ LET dx == p[1] - last_pos[1]
           dy == p[2] - last_pos[2]
       IN  /\ rot_x' = IF left THEN rot_x + dy * RotScale ELSE rot_x
           /\ rot_y' = IF left THEN rot_y + dx * RotScale ELSE rot_y
           /\ drag' = IF left
                      THEN [n |-> drag.n + 1, sx |-> drag.sx + dx, sy |-> drag.sy + dy,
                            rot_x0 |-> IF drag.n = 0 THEN rot_x ELSE drag.rot_x0,
                            rot_y0 |-> IF drag.n = 0 THEN rot_y ELSE drag.rot_y0]
                      ELSE NoDrag
    /\ last_pos' = IF left THEN p ELSE last_pos
    /\ redraw' = TRUE
    /\ event' = [kind |-> "move", x |-> p[1], y |-> p[2], left |-> left, delta |-> 0]
    /\ nevents' = nevents + 1
    /\ pointer' = p
    /\ UNCHANGED <<pc, loaded, scene, distance, frames, frame, center_calls>>

\* Faulty variant, for comparison: dx and dy exchanged
mouseMoveEventSwapped(p, left) ==
    /\ pc = "running"
    /\ nevents < MaxEvents
    /\ LET dx == p[1] - last_pos[1]
           dy == p[2] - last_pos[2]
       IN  /\ rot_x' = IF left THEN rot_x + dx * RotScale ELSE rot_x
           /\ rot_y' = IF left THEN rot_y + dy * RotScale ELSE rot_y
           /\ drag' = IF left
                      THEN [n |-> drag.n + 1, sx |-> drag.sx + dx, sy |-> drag.sy + dy,
                            rot_x0 |-> IF drag.n = 0 THEN rot_x ELSE drag.rot_x0,
                            rot_y0 |-> IF drag.n = 0 THEN rot_y ELSE drag.rot_y0]
                      ELSE NoDrag
    /\ last_pos' = p
    /\ redraw' = TRUE
    /\ event' = [kind |-> "move", x |-> p[1], y |-> p[2], left |-> left, delta |-> 0]
    /\ nevents' = nevents + 1
    /\ pointer' = p
    /\ UNCHANGED <<pc, loaded, scene, distance, frames, frame, center_calls>>

\* mouseMoveEvent, lines 186-196; left is event.buttons() & Qt.LeftButton
mouseMoveEvent(p, left) ==
    /\ pc = "running"
    /\ nevents < MaxEvents
    /\ LET dx == p[1] - last_pos[1]
           dy == p[2] - last_pos[2]
       IN  /\ rot_x' = IF left THEN rot_x + dy * RotScale ELSE rot_x
           /\ rot_y' = IF left THEN rot_y + dx * RotScale ELSE rot_y
           /\ drag' = IF left
                      THEN [n |-> drag.n + 1, sx |-> drag.sx + dx, sy |-> drag.sy + dy,
                            rot_x0 |-> IF drag.n = 0 THEN rot_x ELSE drag.rot_x0,
                            rot_y0 |-> IF drag.n = 0 THEN rot_y ELSE drag.rot_y0]
                      ELSE NoDrag
    /\ last_pos' = p
    /\ redraw' = TRUE
    /\ event' = [kind |-> "move", x |-> p[1], y |-> p[2], left |-> left, delta |-> 0]
    /\ nevents' = nevents + 1
    /\ pointer' = p
    /\ UNCHANGED <<pc, loaded, scene, distance, frames, frame, center_calls>>

\* wheelEvent, lines 198-205
wheelEvent(delta) ==
    /\ pc = "running"
    /\ nevents < MaxEvents
    /\ distance' = Clamp(Scale(distance, WheelFactor(delta)), DistanceMin, DistanceMax)
    /\ redraw' = TRUE
    /\ event' = [kind |-> "wheel", x |-> 0, y |-> 0, left |-> FALSE, delta |-> delta]
    /\ nevents' = nevents + 1
    /\ drag' = NoDrag
    /\ UNCHANGED <<pc, loaded, scene, rot_x, rot_y, last_pos, frames, frame,
                   pointer, center_calls>>

----------------------------------------------------------------------------
(* Specifications *)

\* The directories of the lifecycle specification
SampleDirs ==
    { <<>>,
      << Corrupt(NameUpper) >>,
      << Entry(NameLower, TRUE, MeshMixed), Entry(NameText, TRUE, MeshHuge),
         Corrupt(NameMixed) >>,
      << Entry(NameUpper, TRUE, MeshHuge) >>,
      << Entry(NameLower, TRUE, MeshAllBad) >>,
      << Entry(NameMixed, TRUE, MeshBox), Entry(NameShort, TRUE, MeshHuge),
         Entry(NameLower, TRUE, MeshPoint) >>,
      << Entry(NameLower, TRUE, MeshPoint) >> }

Names == {NameLower, NameUpper, NameText, NameShort}
Entries == {Entry(n, TRUE, m) : n \in Names, m \in MeshPool} \cup {Corrupt(n) : n \in Names}

\* Every directory of at most MaxFiles entries (file names are unique in a directory)
AllDirs ==
    { d \in UNION { [1..n -> Entries] : n \in 0..MaxFiles } :
        \A i, j \in 1..Len(d) : i # j => d[i].name # d[j].name }

Init == InitOn(SampleDirs)

Next ==
    \/ load_skip
    \/ load_ok
    \/ load_fail
    \/ center_scene
    \/ show
    \/ paintGL
    \/ \E p \in Positions : mousePressEvent(p)
    \/ \E p \in Positions, left \in BOOLEAN : mouseMoveEvent(p, left)
    \/ \E delta \in Deltas : wheelEvent(delta)

Spec == Init /\ [][Next]_vars

\* Construction alone, over every small directory
InitLoad == InitOn(AllDirs)

NextLoad ==
    \/ load_skip
    \/ load_ok
    \/ load_fail
    \/ center_scene

SpecLoad == InitLoad /\ [][NextLoad]_vars

----------------------------------------------------------------------------
(* Vocabulary of the properties, stated apart from the model's operators *)

\* The name ends in ".stl", in any mix of upper and lower case.
EndsInStlAnyCase(name) ==
    /\ Len(name) >= 4
    /\ name[Len(name) - 3] = "."
    /\ name[Len(name) - 2] \in {"s", "S"}
    /\ name[Len(name) - 1] \in {"t", "T"}
    /\ name[Len(name)] \in {"l", "L"}

\* The entries of a directory that are candidates, in enumeration order
CandidatesOf(dir) == SelectSeq(dir, LAMBDA e : EndsInStlAnyCase(e.name))

\* The meshes a complete scan of the directory yields
ExpectedMeshes(dir) ==
    LET good == SelectSeq(CandidatesOf(dir), LAMBDA e : e.parses)
    IN  [i \in 1..Len(good) |-> good[i].vectors]

\* The candidates the scan has attempted, from the "Loading:" lines of the log
Attempted(lines) ==
    LET ls == SelectSeq(lines, LAMBDA l : l[1] = "Loading:")
    IN  [i \in 1..Len(ls) |-> ls[i][2]]

\* The vertices of all loaded meshes, and those with three finite coordinates
VerticesOf(ms) ==
    UNION { UNION { { ms[i][t][k] : k \in 1..3 } : t \in 1..Len(ms[i]) } : i \in 1..Len(ms) }
GoodVertices(ms) ==
    { v \in VerticesOf(ms) : v[1].k = "fin" /\ v[2].k = "fin" /\ v[3].k = "fin" }

SetMin(S) == CHOOSE m \in S : \A x \in S : m <= x
SetMax(S) == CHOOSE m \in S : \A x \in S : m >= x

Constructed == pc \in {"constructed", "running"}

\* The step is the handling of one input event of the given kind.
Handles(kind) == nevents' = nevents + 1 /\ event'.kind = kind

----------------------------------------------------------------------------
(* Properties *)

\* C1: once the viewer is constructed, and after any sequence of press, move
\* and wheel events, the camera distance lies in [10, 100000].
C1_DistanceInRange ==
    Constructed => (10000 <= distance /\ distance <= 100000000)

\* C2: a candidate that fails to parse never aborts the scan: when load_folder
\* has returned, the meshes are exactly those of the entries whose name ends in
\* ".stl" in any case and that parsed, in enumeration order, and every
\* candidate, also one after a failing one, was attempted.
C2_ScanNeverAborts ==
    /\ Loaded =>
          /\ meshes = ExpectedMeshes(listing)
          /\ Attempted(log) = [i \in 1..Len(CandidatesOf(listing)) |->
                                  CandidatesOf(listing)[i].name]
    /\ pc = "crashed" => Loaded

\* C2's case: the scan is over, a candidate failed and a later one was loaded
C2_Witness ==
    /\ Loaded
    /\ \E i, j \in 1..Len(listing) :
          /\ i < j
          /\ EndsInStlAnyCase(listing[i].name) /\ ~listing[i].parses
          /\ listing[j].name = <<"B", ".", "S", "T", "L">> /\ listing[j].parses
          /\ meshes = <<listing[j].vectors>>

\* C3: the mesh and colour collections have the same length in every state,
\* whatever the directory and whichever files fail, and a failed file adds to
\* neither: both hold one entry per candidate scanned so far that parsed.
C3_ParallelCollections ==
    /\ Len(meshes) = Len(colors)
    /\ Len(meshes) =
          Cardinality({ i \in 1..Min2(idx - 1, Len(listing)) :
                           EndsInStlAnyCase(listing[i].name) /\ listing[i].parses })

\* C3's case: the viewer handles events after a scan in which a file failed and
\* another was loaded
C3_Witness ==
    /\ pc = "running"
    /\ nevents >= 2
    /\ frames >= 1
    /\ Len(meshes) >= 1
    /\ \E i \in 1..Len(listing) : EndsInStlAnyCase(listing[i].name) /\ ~listing[i].parses

\* C4: with no candidate, or with every candidate failing, center_scene
\* completes and yields center (0,0,0), size 100 and distance 500.
C4_EmptySceneFallback ==
    (center_calls = 1 /\ meshes = <<>>) =>
        /\ pc = "constructed"
        /\ center = <<0, 0, 0>>
        /\ size = 100000
        /\ distance = 500000

\* C4's case: center_scene has run after a scan whose candidates all failed
C4_Witness ==
    /\ center_calls = 1
    /\ meshes = <<>>
    /\ Len(CandidatesOf(listing)) = 2
    /\ \A i \in 1..Len(listing) : ~listing[i].parses

\* C5: with a mesh loaded but no vertex with three finite coordinates,
\* center_scene yields the fallback bounds and raises no error.
C5_NoFiniteVertexFallback ==
    (center_calls = 1 /\ meshes # <<>> /\ GoodVertices(meshes) = {}) =>
        /\ pc = "constructed"
        /\ center = <<0, 0, 0>>
        /\ size = 100000
        /\ distance = 500000

\* C6: a move with the left button held, at p when the last position is q, adds
\* 0.4 * (p.y - q.y) to rot_x and 0.4 * (p.x - q.x) to rot_y, sets the last
\* position to p, keeps the distance and requests a redraw; over a run of
\* consecutive such moves the rotation has grown by 0.4 times the summed deltas.
C6_LeftDragRotates ==
    [][ (Handles("move") /\ event'.left) =>
          /\ rot_x' = rot_x + 4 * (event'.y - last_pos[2])
          /\ rot_y' = rot_y + 4 * (event'.x - last_pos[1])
          /\ last_pos' = <<event'.x, event'.y>>
          /\ distance' = distance
          /\ redraw'
          /\ drag'.n >= 1
          /\ rot_x' = drag'.rot_x0 + 4 * drag'.sy
          /\ rot_y' = drag'.rot_y0 + 4 * drag'.sx ]_vars

\* C6's case: a run of three left-button moves from the initial rotation whose
\* deltas sum to (10, -5)
C6_Witness ==
    /\ event.kind = "move" /\ event.left
    /\ drag.n = 3
    /\ drag.sx = 10 /\ drag.sy = -5
    /\ rot_x = 250 - 20
    /\ rot_y = -400 + 40
    /\ redraw

\* C7: a wheel event of delta d sets the distance to
\* clamp(distance * clamp(1 - d * 0.001, 0.1, 5), 10, 100000), keeps the
\* rotation and the last position and requests a redraw; for d > 0 the distance
\* does not grow and for d < 0 it does not shrink.
C7_WheelZoom ==
    [][ Handles("wheel") =>
          LET d == event'.delta
              f == IF 1000 - d < 100 THEN 100 ELSE IF 1000 - d > 5000 THEN 5000 ELSE 1000 - d
              x == (distance \div 1000) * f + ((distance % 1000) * f) \div 1000
          IN  /\ distance' = IF x < 10000 THEN 10000 ELSE IF x > 100000000 THEN 100000000 ELSE x
              /\ UNCHANGED <<rot_x, rot_y, last_pos>>
              /\ redraw'
              /\ d > 0 => distance' <= distance
              /\ d < 0 => distance' >= distance ]_vars

\* C8: a press changes only the last position, and a move without the left
\* button changes the last position but neither rotation nor distance; so a
\* left-button move turns the scene by the delta from the position of the
\* pointer event just before it.
C8_PointerTracking ==
    [][ /\ Handles("press") =>
             /\ last_pos' = <<event'.x, event'.y>>
             /\ UNCHANGED <<rot_x, rot_y, distance, redraw, frames, frame,
                            meshes, colors, center, size>>
        /\ (Handles("move") /\ ~event'.left) =>
             /\ last_pos' = <<event'.x, event'.y>>
             /\ UNCHANGED <<rot_x, rot_y, distance>>
        /\ (Handles("move") /\ event'.left /\ pointer # <<>>) =>
             /\ rot_x' - rot_x = 4 * (event'.y - pointer[2])
             /\ rot_y' - rot_y = 4 * (event'.x - pointer[1]) ]_vars

\* C8's case: the third event is a left-button move that starts a run; no
\* event before it has turned the scene or zoomed (a wheel event would have
\* brought the distance to 100000 or less), the pointer was away from its
\* initial position, and the rotation is that of the one delta
C8_Witness ==
    /\ nevents = 3
    /\ event.kind = "move" /\ event.left
    /\ drag.n = 1
    /\ drag.sx # 0 /\ drag.sy # 0
    /\ event.x # drag.sx
    /\ rot_x = 250 + 4 * drag.sy
    /\ rot_y = -400 + 4 * drag.sx
    /\ distance > 100000000

\* C9: center_scene runs once, after load_folder has scanned every entry and
\* before the first frame and the first input event; a frame or a handler
\* never sees a partly loaded mesh collection or an unset scene center.
C9_BoundsOnceBeforeFrames ==
    /\ center_calls <= 1
    /\ center_calls = 1 <=> pc \in {"constructed", "running", "crashed"}
    /\ center_calls = 1 => (Loaded /\ meshes = ExpectedMeshes(listing))
    /\ (frames > 0 \/ nevents > 0 \/ redraw) =>
          /\ pc = "running"
          /\ center_calls = 1
          /\ Len(center) = 3
    /\ frames > 0 =>
          /\ Len(frame.translate) = 3
          /\ Len(frame.drawn) = Len(ExpectedMeshes(listing))

\* C9's case: frames were rendered and events handled on a scene of two meshes
C9_Witness ==
    /\ frames >= 2
    /\ nevents >= 2
    /\ Len(meshes) = 2
    /\ Len(frame.drawn) = 2

\* C10: a vertex with a non-finite coordinate is left out of the bounds as a
\* whole: min_xyz and max_xyz are the component-wise extrema over exactly the
\* vertices whose three coordinates are finite, and center is their midpoint.
C10_BoundsOverFiniteVertices ==
    (center_calls = 1 /\ GoodVertices(meshes) # {}) =>
        /\ pc = "constructed"
        /\ \A i \in 1..3 :
              /\ min_xyz[i] = SetMin({ v[i].v : v \in GoodVertices(meshes) })
              /\ max_xyz[i] = SetMax({ v[i].v : v \in GoodVertices(meshes) })
              /\ 2 * center[i] = 1000 * (min_xyz[i] + max_xyz[i])

\* C10's case: a mesh with one bad vertex and two good ones, beside a mesh whose
\* vertices are all bad
C10_Witness ==
    /\ center_calls = 1
    /\ Len(meshes) = 2
    /\ \E i \in 1..2 :
          /\ Cardinality(VerticesOf(<<meshes[i]>>)) = 3
          /\ Cardinality(GoodVertices(<<meshes[i]>>)) = 2
          /\ GoodVertices(<<meshes[3 - i]>>) = {}
          /\ VerticesOf(<<meshes[3 - i]>>) # {}
    /\ min_xyz = <<0, 0, 0>>
    /\ max_xyz = <<3, 4, 0>>
    /\ center = <<1500, 2000, 0>>

====
